---- MODULE Spec2Model ----
(***************************************************************************)
(* SqlPilot(sql, params) of src/index.js: named placeholders (":name") of  *)
(* an SQL string are replaced by "?" and the bound values are collected.   *)
(*                                                                         *)
(* A string is a sequence of one-character strings.  A JavaScript value is *)
(* a string: a member of Scalars is an opaque datum bound as it is, a      *)
(* member of Refs is a reference to an array object whose elements are in  *)
(* heap.  A params object is a function from its own property names (keys, *)
(* themselves strings) to values.  Bound values are data: no value is      *)
(* callable.                                                               *)
(***************************************************************************)
EXTENDS Integers, Sequences, FiniteSets

(* sql, params : the arguments                                            *)
(* heap        : the elements of every array object, by reference        *)
(* newParams   : the reference held by the variable of line 10           *)
(* acc, pos    : the result of sql.replace so far, and the index of sql  *)
(*               from which the next match is looked for                 *)
(* newSql      : the variable of line 12                                 *)
(* pc          : "entry", "replace", "done" (returned), "threw"          *)
(* calls       : the calls of the callback so far, each with the index   *)
(*               of its match in sql (at), its key, the index of its     *)
(*               result in the result of replace (outAt), its result     *)
(*               (ret) and the length of newParams before and after it   *)
VARIABLES sql, params, heap, newParams, acc, pos, newSql, pc, calls

vars == <<sql, params, heap, newParams, acc, pos, newSql, pc, calls>>

-----------------------------------------------------------------------------
(* Bounds of the inputs. *)

MaxLen == 4

MaxArrLen == 2

(* The characters templates are drawn from: the colon, a letter in both  *)
(* cases, a digit and a question mark.                                   *)
Alphabet == {":", "a", "A", "2", "?"}

Scalars == {"v1", "v2"}

-----------------------------------------------------------------------------
(* Helpers on sequences. *)

SeqsUpTo(S, n) == UNION {[1..k -> S] : k \in 0..n}

Range(f) == {f[x] : x \in DOMAIN f}

-----------------------------------------------------------------------------
(* The regular expression /:([a-zA-Z0-9_]+)/g. *)

WordChars ==
  {"a","b","c","d","e","f","g","h","i","j","k","l","m",
   "n","o","p","q","r","s","t","u","v","w","x","y","z",
   "A","B","C","D","E","F","G","H","I","J","K","L","M",
   "N","O","P","Q","R","S","T","U","V","W","X","Y","Z",
   "0","1","2","3","4","5","6","7","8","9","_"}

(* Whether the pattern matches with its first character at index p: a    *)
(* colon followed by at least one character of the class.                *)
MatchesAt(s, p) ==
  /\ p + 1 <= Len(s)
  /\ s[p] = ":"
  /\ s[p + 1] \in WordChars

(* The start of the leftmost match at or after index p, 0 when there is  *)
(* none: the matcher tries each start index in turn.                     *)
RECURSIVE FindMatch(_, _)
FindMatch(s, p) ==
  IF p > Len(s) THEN 0
  ELSE IF MatchesAt(s, p) THEN p
  ELSE FindMatch(s, p + 1)

LazyEnd(s, q) == q

(* The last index of the match whose key so far ends at q: the greedy +  *)
(* takes every following character of the class.                         *)
RECURSIVE GreedyEnd(_, _)
GreedyEnd(s, q) ==
  IF q + 1 <= Len(s) /\ s[q + 1] \in WordChars THEN GreedyEnd(s, q + 1) ELSE q

MatchEnd(s, p) == GreedyEnd(s, p + 1)

-----------------------------------------------------------------------------
(* The params object and the arrays it refers to. *)

HasOwnPropertyName == <<"h","a","s","O","w","n","P","r","o","p","e","r","t","y">>

KeyLower == <<"a">>

KeyUpper == <<"A">>

BindKeys == {KeyLower, KeyUpper, HasOwnPropertyName}

(* The array object that KeyLower may be bound to. *)
Refs == {"r1"}

(* The reference of the array that line 10 creates. *)
NewRef == "np"

IsArray(v) == v \in Refs \cup {NewRef}

Arrays == SeqsUpTo(Scalars, MaxArrLen)

(* KeyLower is bound to a scalar or to the array, the other keys to a    *)
(* scalar.                                                               *)
ValuesOf(k) ==
  IF k = KeyLower THEN Scalars \cup Refs
  ELSE IF k = KeyUpper THEN Scalars
  ELSE {"v1"}

ParamObjects ==
  UNION {{p \in [K -> Scalars \cup Refs] : \A k \in K : p[k] \in ValuesOf(k)}
         : K \in SUBSET BindKeys}

BoundRefs(ps) == {v \in Range(ps) : IsArray(v)}

(* Templates longer than MaxLen: a token named hasOwnProperty, and the   *)
(* shapes of the readme's examples.                                      *)
LongTemplates ==
  {<<":">> \o HasOwnPropertyName,
   <<":", "a", " ", ":">> \o HasOwnPropertyName,
   <<"i", "d", " ", "I", "N", " ", ":", "a">>,
   <<"(", ":", "a", ",", " ", ":", "A", ")", ",", "(", ":", "a", ",", " ", ":", "a", "2", ")">>}

Templates == SeqsUpTo(Alphabet, MaxLen) \cup LongTemplates

-----------------------------------------------------------------------------
(* The callback of sql.replace, lines 12-32. *)

(* params.hasOwnProperty(key), line 13.  The method is looked up on the  *)
(* object first: an own property named hasOwnProperty shadows the one of *)
(* Object.prototype, and, its value being data, the call is a TypeError. *)
HasOwnPropertyThrows(ps) == HasOwnPropertyName \in DOMAIN ps

HasOwnProperty(ps, key) == key \in DOMAIN ps

(* value.map(function () { return "?"; }), lines 16-19. *)
MapPlaceholders(items) == [i \in 1..Len(items) |-> <<"?">>]

(* strs.join(", "), line 20. *)
RECURSIVE Join(_)
Join(strs) ==
  IF Len(strs) = 0 THEN <<>>
  ELSE IF Len(strs) = 1 THEN strs[1]
  ELSE strs[1] \o <<",", " ">> \o Join(Tail(strs))

PushFront(hp, np, item) == [hp EXCEPT ![np] = <<item>> \o @]

(* newParams.push(item), lines 22 and 26. *)
Push(hp, np, item) == [hp EXCEPT ![np] = Append(@, item)]

(* value.forEach(function (item) { newParams.push(item); }), lines       *)
(* 21-23: the elements with index i..n of the array at arr, in order.    *)
RECURSIVE ForEachPush(_, _, _, _, _)
ForEachPush(hp, np, arr, i, n) ==
  IF i > n \/ i > Len(hp[arr]) THEN hp
  ELSE ForEachPush(Push(hp, np, hp[arr][i]), np, arr, i + 1, n)

ArrayBranchDrain(hp, np, value) ==
  [ret  |-> <<"(">> \o Join(MapPlaceholders(hp[value])) \o <<")">>,
   heap |-> [ForEachPush(hp, np, value, 1, Len(hp[value])) EXCEPT ![value] = <<>>]]

(* The array branch, lines 16-24. *)
ArrayBranch(hp, np, value) ==
  [ret  |-> <<"(">> \o Join(MapPlaceholders(hp[value])) \o <<")">>,
   heap |-> ForEachPush(hp, np, value, 1, Len(hp[value]))]

ScalarBranchInline(hp, np, value) ==
  [ret |-> <<value>>, heap |-> Push(hp, np, value)]

ScalarBranchNoPush(hp, np, value) == [ret |-> <<"?">>, heap |-> hp]

(* The scalar branch, lines 26-27. *)
ScalarBranch(hp, np, value) ==
  [ret |-> <<"?">>, heap |-> Push(hp, np, value)]

(* The callback when the lookup of line 13 does not throw. *)
Callback(match, key, ps, hp, np) ==
  IF HasOwnProperty(ps, key)
  THEN IF IsArray(ps[key])
       THEN ArrayBranch(hp, np, ps[key])
       ELSE ScalarBranch(hp, np, ps[key])
  ELSE [ret |-> match, heap |-> hp]

-----------------------------------------------------------------------------
(* The call. *)

Init ==
  /\ sql \in Templates
  /\ params \in ParamObjects
  /\ heap \in [BoundRefs(params) -> Arrays]
  /\ newParams = "none"
  /\ acc = <<>>
  /\ pos = 1
  /\ newSql = <<>>
  /\ pc = "entry"
  /\ calls = <<>>

(* var newParams = [], line 10: a new array object. *)
NewArray(hp) == [r \in DOMAIN hp \cup {NewRef} |-> IF r = NewRef THEN <<>> ELSE hp[r]]

(* One round of sql.replace for the match that starts at p, the search   *)
(* having started at from: the callback is called with the match and its *)
(* key; the text before the match and the callback's result join the     *)
(* result out.  (replace finds all the matches first and then calls the  *)
(* callback for each from left to right; sql being immutable, finding    *)
(* each match just before its call gives the same calls.)                *)
ReplaceOne(s, ps, hp, np, from, out, p) ==
  LET e     == MatchEnd(s, p)
      match == SubSeq(s, p, e)
      key   == SubSeq(s, p + 1, e)
      r     == Callback(match, key, ps, hp, np)
      lit   == SubSeq(s, from, p - 1)
  IN [out  |-> out \o lit \o r.ret,
      heap |-> r.heap,
      next |-> e + 1,
      call |-> [at    |-> p,
                key   |-> key,
                outAt |-> Len(out) + Len(lit) + 1,
                ret   |-> r.ret,
                np0   |-> Len(hp[np]),
                np1   |-> Len(r.heap[np])]]

ReplaceRestDropped(s, from, out) == out

(* The rest of s joins the result when no match is left. *)
ReplaceRest(s, from, out) == out \o SubSeq(s, from, Len(s))

Enter ==
  /\ pc = "entry"
  /\ newParams' = NewRef
  /\ heap' = NewArray(heap)
  /\ pc' = "replace"
  /\ UNCHANGED <<sql, params, acc, pos, newSql, calls>>

(* sql.replace finds the next match and the callback returns. *)
ReplaceMatch ==
  /\ pc = "replace"
  /\ FindMatch(sql, pos) # 0
  /\ ~HasOwnPropertyThrows(params)
  /\ LET r == ReplaceOne(sql, params, heap, newParams, pos, acc, FindMatch(sql, pos))
     IN /\ acc' = r.out
        /\ heap' = r.heap
        /\ pos' = r.next
        /\ calls' = Append(calls, r.call)
  /\ UNCHANGED <<sql, params, newParams, newSql, pc>>

(* sql.replace finds the next match and the callback throws at line 13:  *)
(* the exception leaves replace and SqlPilot, and nothing is returned.   *)
ReplaceThrow ==
  /\ pc = "replace"
  /\ FindMatch(sql, pos) # 0
  /\ HasOwnPropertyThrows(params)
  /\ pc' = "threw"
  /\ UNCHANGED <<sql, params, heap, newParams, acc, pos, newSql, calls>>

(* No match is left: the result of replace is newSql, and line 34        *)
(* returns [newSql, newParams].                                          *)
Return ==
  /\ pc = "replace"
  /\ FindMatch(sql, pos) = 0
  /\ newSql' = ReplaceRest(sql, pos, acc)
  /\ acc' = ReplaceRest(sql, pos, acc)
  /\ pos' = Len(sql) + 1
  /\ pc' = "done"
  /\ UNCHANGED <<sql, params, heap, newParams, calls>>

Next == Enter \/ ReplaceMatch \/ ReplaceThrow \/ Return

Spec == Init /\ [][Next]_vars

(* The whole of sql.replace as a function, from index from on. *)
RECURSIVE Replace(_, _, _, _, _, _)
Replace(s, ps, hp, np, from, out) ==
  LET p == FindMatch(s, from)
  IN IF p = 0 THEN [pc |-> "done", newSql |-> ReplaceRest(s, from, out), heap |-> hp]
     ELSE IF HasOwnPropertyThrows(ps) THEN [pc |-> "threw", newSql |-> <<>>, heap |-> hp]
     ELSE LET r == ReplaceOne(s, ps, hp, np, from, out, p)
          IN Replace(s, ps, r.heap, np, r.next, r.out)

(* SqlPilot(s, ps) with the arrays hp, as a function. *)
SqlPilot(s, ps, hp) == Replace(s, ps, NewArray(hp), NewRef, 1, <<>>)

-----------------------------------------------------------------------------
(* The vocabulary of the properties: the tokens of a template as the     *)
(* documentation describes them, and the result of the call.             *)

IdentChars ==
  {"a","b","c","d","e","f","g","h","i","j","k","l","m",
   "n","o","p","q","r","s","t","u","v","w","x","y","z"}
  \cup
  {"A","B","C","D","E","F","G","H","I","J","K","L","M",
   "N","O","P","Q","R","S","T","U","V","W","X","Y","Z"}
  \cup {"0","1","2","3","4","5","6","7","8","9"}
  \cup {"_"}

(* A token starts at every colon that an identifier character follows. *)
TokenStarts(s) ==
  {p \in 1..Len(s) : p < Len(s) /\ s[p] = ":" /\ s[p + 1] \in IdentChars}

(* The token that starts at p ends with the maximal run of identifier    *)
(* characters after the colon.                                           *)
TokenEnd(s, p) ==
  CHOOSE e \in (p + 1)..Len(s) :
    /\ \A i \in (p + 1)..e : s[i] \in IdentChars
    /\ e = Len(s) \/ s[e + 1] \notin IdentChars

TokenKey(s, p) == SubSeq(s, p + 1, TokenEnd(s, p))

TokenText(s, p) == SubSeq(s, p, TokenEnd(s, p))

(* The rank of the token that starts at p, counting from the left. *)
TokenIndex(s, p) == Cardinality({q \in TokenStarts(s) : q <= p})

Returned == pc = "done"

Terminated == pc \in {"done", "threw"}

outputSql == newSql

outputParams == heap[newParams]

CountQ(s) == Cardinality({i \in DOMAIN s : s[i] = "?"})

(* The place in the result of the text that the k-th call of the         *)
(* callback returned.                                                    *)
OutRange(k) == calls[k].outAt .. (calls[k].outAt + Len(calls[k].ret) - 1)

Bound(k) == calls[k].key \in DOMAIN params

(* The "?" marks of the result that the k-th call emitted. *)
EmittedBy(k) ==
  IF Bound(k) THEN {x \in OutRange(k) : x \in DOMAIN outputSql /\ outputSql[x] = "?"}
  ELSE {}

Emitted == UNION {EmittedBy(k) : k \in 1..Len(calls)}

(* What the j-th "?" of a token with the key key stands for. *)
BoundElement(key, j) ==
  IF IsArray(params[key]) THEN heap[params[key]][j] ELSE params[key]

(* C1 as stated: the result has as many "?" characters as parameters. *)
C1_AsStated == Returned => CountQ(outputSql) = Len(outputParams)

(* C1, amended: the "?" characters of the result are those of the        *)
(* template and one for each parameter.                                  *)
C1_QuestionMarks ==
  Returned => CountQ(outputSql) = CountQ(sql) + Len(outputParams)

C1_Witness ==
  /\ Returned
  /\ CountQ(sql) > 0
  /\ CountQ(outputSql) = 3
  /\ Len(outputParams) = 2
  /\ \E k \in 1..Len(calls) : Bound(k) /\ IsArray(params[calls[k].key])

(* C2 as stated: the i-th "?" of the result, for every i, was emitted    *)
(* for the token whose bound value or element is the i-th parameter.     *)
C2_AsStated ==
  Returned =>
    \A x \in DOMAIN outputSql :
      outputSql[x] = "?" =>
        LET i == Cardinality({y \in 1..x : outputSql[y] = "?"})
        IN \E k \in 1..Len(calls) :
             /\ x \in EmittedBy(k)
             /\ i <= Len(outputParams)
             /\ outputParams[i] =
                  BoundElement(calls[k].key, Cardinality({y \in EmittedBy(k) : y <= x}))

(* C2, amended: the i-th "?" among those emitted for tokens, for every   *)
(* i, was emitted for the token whose bound value or element is the i-th *)
(* parameter, and every parameter has its "?".                           *)
C2_ScanOrder ==
  Returned =>
    /\ \A k \in 1..Len(calls) :
         /\ OutRange(k) \subseteq DOMAIN outputSql
         /\ SubSeq(outputSql, calls[k].outAt, calls[k].outAt + Len(calls[k].ret) - 1)
              = calls[k].ret
    /\ Cardinality(Emitted) = Len(outputParams)
    /\ \A k \in 1..Len(calls) :
         \A x \in EmittedBy(k) :
           LET i == Cardinality({y \in Emitted : y <= x})
           IN /\ i <= Len(outputParams)
              /\ outputParams[i] =
                   BoundElement(calls[k].key, Cardinality({y \in EmittedBy(k) : y <= x}))

C2_Witness ==
  /\ Returned
  /\ outputParams = <<"v1", "v2", "v1">>
  /\ Len(calls) = 2
  /\ calls[1].key = KeyUpper
  /\ calls[2].key = KeyLower
  /\ IsArray(params[KeyLower])

-----------------------------------------------------------------------------
(* What the documentation says of one token, in terms of the result. *)

NthToken(s, k) == CHOOSE p \in TokenStarts(s) : TokenIndex(s, p) = k

KeyBound(p) == TokenKey(sql, p) \in DOMAIN params

KeyBoundToArray(p) == KeyBound(p) /\ IsArray(params[TokenKey(sql, p)])

KeyBoundToScalar(p) == KeyBound(p) /\ ~IsArray(params[TokenKey(sql, p)])

(* The callback was called for the token that starts at p. *)
Called(p) ==
  /\ TokenIndex(sql, p) <= Len(calls)
  /\ calls[TokenIndex(sql, p)].at = p

(* The result holds text where the template holds the token that starts  *)
(* at p: the template's text between the token before and this one comes *)
(* before it, the template's text up to the next token comes after it.   *)
InPlace(p, text) ==
  LET k       == TokenIndex(sql, p)
      n       == Cardinality(TokenStarts(sql))
      from    == calls[k].outAt
      prevOut == IF k = 1 THEN 1 ELSE calls[k - 1].outAt + Len(calls[k - 1].ret)
      prevSrc == IF k = 1 THEN 1 ELSE TokenEnd(sql, NthToken(sql, k - 1)) + 1
      nextOut == IF k = Len(calls) THEN Len(outputSql) + 1 ELSE calls[k + 1].outAt
      nextSrc == IF k = n THEN Len(sql) + 1 ELSE NthToken(sql, k + 1)
  IN /\ SubSeq(outputSql, prevOut, from - 1) = SubSeq(sql, prevSrc, p - 1)
     /\ from + Len(text) - 1 <= Len(outputSql)
     /\ SubSeq(outputSql, from, from + Len(text) - 1) = text
     /\ SubSeq(outputSql, from + Len(text), nextOut - 1)
          = SubSeq(sql, TokenEnd(sql, p) + 1, nextSrc - 1)

(* n "?" marks joined by ", ". *)
RECURSIVE QMarks(_)
QMarks(n) ==
  IF n = 0 THEN <<>>
  ELSE IF n = 1 THEN <<"?">>
  ELSE QMarks(n - 1) \o <<",", " ", "?">>

Group(n) == <<"(">> \o QMarks(n) \o <<")">>

(* The token that starts at p, bound to a sequence, is replaced by the   *)
(* group and the elements are appended in their order.                   *)
SeqExpanded(p) ==
  LET c   == calls[TokenIndex(sql, p)]
      arr == heap[params[TokenKey(sql, p)]]
  IN /\ Called(p)
     /\ InPlace(p, Group(Len(arr)))
     /\ c.np1 = c.np0 + Len(arr)
     /\ c.np1 <= Len(outputParams)
     /\ SubSeq(outputParams, c.np0 + 1, c.np1) = arr

(* The token that starts at p, bound to a scalar, is replaced by one "?" *)
(* and the value is appended once.                                       *)
ScalarSubstituted(p) ==
  LET c == calls[TokenIndex(sql, p)]
  IN /\ Called(p)
     /\ InPlace(p, <<"?">>)
     /\ c.np1 = c.np0 + 1
     /\ c.np1 <= Len(outputParams)
     /\ outputParams[c.np1] = params[TokenKey(sql, p)]

(* The token that starts at p is in the result as it is in the template  *)
(* and nothing is appended for it.                                       *)
PassedThrough(p) ==
  LET c == calls[TokenIndex(sql, p)]
  IN /\ Called(p)
     /\ InPlace(p, TokenText(sql, p))
     /\ c.np1 = c.np0

(* Every call that returns expands the tokens bound to sequences. *)
SequenceExpansion ==
  Returned => \A p \in TokenStarts(sql) : KeyBoundToArray(p) => SeqExpanded(p)

(* Every call that returns substitutes the tokens bound to scalars. *)
ScalarSubstitution ==
  Returned => \A p \in TokenStarts(sql) : KeyBoundToScalar(p) => ScalarSubstituted(p)

(* Every call that returns passes the tokens of unbound keys through. *)
PassThrough ==
  Returned => \A p \in TokenStarts(sql) : ~KeyBound(p) => PassedThrough(p)

(* C3: every token whose key is bound to a sequence of length n is       *)
(* replaced in place by "(" n "?" joined by ", " ")" and the n elements  *)
(* are appended in their order; "()" and nothing for n = 0.              *)
C3_SequenceExpansion ==
  Terminated =>
    \A p \in TokenStarts(sql) : KeyBoundToArray(p) => Returned /\ SeqExpanded(p)

(* C4: every occurrence of a token whose key is bound to a scalar is     *)
(* replaced by exactly one "?" and one copy of the value is appended.    *)
C4_ScalarSubstitution ==
  Terminated =>
    \A p \in TokenStarts(sql) : KeyBoundToScalar(p) => Returned /\ ScalarSubstituted(p)

(* C5: every token whose key is not in params is in the result unchanged *)
(* and appends nothing, and the tokens of bound keys of the same         *)
(* template are substituted.                                             *)
C5_PassThrough ==
  Terminated =>
    \A p \in TokenStarts(sql) :
      ~KeyBound(p) =>
        /\ Returned
        /\ PassedThrough(p)
        /\ \A q \in TokenStarts(sql) :
             /\ KeyBoundToArray(q) => SeqExpanded(q)
             /\ KeyBoundToScalar(q) => ScalarSubstituted(q)

(* C6: the call never fails, whatever the template and the params. *)
C6_NeverFails == pc # "threw"

(* C7: no step of the call changes the template, the params object or a  *)
(* bound array, and newParams is none of the bound arrays.               *)
C7_InputsUnchanged ==
  [][/\ sql' = sql
     /\ params' = params
     /\ \A r \in BoundRefs(params) : r \in DOMAIN heap' /\ heap'[r] = heap[r]
     /\ newParams' # "none" => newParams' \notin BoundRefs(params')]_vars

C7_Witness ==
  /\ Returned
  /\ KeyLower \in DOMAIN params
  /\ IsArray(params[KeyLower])
  /\ Len(heap[params[KeyLower]]) = 2
  /\ Len(outputParams) >= 4

(* C8: for a template without a token the call returns the template and *)
(* no parameters, whatever the params.                                   *)
C8_NoTokens ==
  (Terminated /\ TokenStarts(sql) = {}) =>
    /\ Returned
    /\ outputSql = sql
    /\ outputParams = <<>>

C8_Witness ==
  /\ Returned
  /\ TokenStarts(sql) = {}
  /\ Len(sql) = 4
  /\ sql[2] = ":"
  /\ sql[4] = ":"
  /\ DOMAIN params = BindKeys

LowerLetters ==
  <<"a","b","c","d","e","f","g","h","i","j","k","l","m",
    "n","o","p","q","r","s","t","u","v","w","x","y","z">>

UpperLetters ==
  <<"A","B","C","D","E","F","G","H","I","J","K","L","M",
    "N","O","P","Q","R","S","T","U","V","W","X","Y","Z">>

FoldChar(c) ==
  IF \E i \in DOMAIN UpperLetters : UpperLetters[i] = c
  THEN LowerLetters[CHOOSE i \in DOMAIN UpperLetters : UpperLetters[i] = c]
  ELSE c

Fold(s) == [i \in DOMAIN s |-> FoldChar(s[i])]

StrictPrefix(a, b) == Len(a) < Len(b) /\ SubSeq(b, 1, Len(a)) = a

(* A bound key that is not the key but a strict prefix of it, or the key *)
(* in another case.                                                      *)
NearMiss(key) ==
  /\ key \notin DOMAIN params
  /\ \E b \in DOMAIN params : StrictPrefix(b, key) \/ Fold(b) = Fold(key)

(* C9: the callback is called once for each token, from left to right,   *)
(* with the maximal run of identifier characters as the key; a token is  *)
(* substituted only if params has exactly that key, so a token of which  *)
(* only a strict prefix or a case variant is bound passes through.       *)
C9_LongestMatch ==
  /\ Len(calls) <= Cardinality(TokenStarts(sql))
  /\ Returned => Len(calls) = Cardinality(TokenStarts(sql))
  /\ \A k \in 1..Len(calls) :
       LET p == NthToken(sql, k)
       IN /\ calls[k].at = p
          /\ calls[k].key = TokenKey(sql, p)
          /\ NearMiss(calls[k].key) =>
               /\ calls[k].ret = TokenText(sql, p)
               /\ calls[k].np1 = calls[k].np0
               /\ Returned => InPlace(p, TokenText(sql, p))

C9_Witness ==
  /\ Returned
  /\ DOMAIN params = {KeyLower}
  /\ outputParams = <<"v1", "v1">>
  /\ \E k \in 1..Len(calls) : calls[k].key = KeyUpper /\ calls[k].ret = <<":", "A">>
  /\ \E k \in 1..Len(calls) :
       calls[k].key = <<"a", "2">> /\ calls[k].ret = <<":", "a", "2">>

(* Params objects with the keys of ps and, for each key, a value of the  *)
(* same shape: a scalar for a scalar, an array of the same length for an *)
(* array.                                                                *)
SameShape(ps, hp) ==
  {o \in {[params |-> q, heap |-> h] :
            q \in {q \in ParamObjects : DOMAIN q = DOMAIN ps},
            h \in [BoundRefs(ps) -> Arrays]} :
     /\ \A k \in DOMAIN ps : IsArray(o.params[k]) <=> IsArray(ps[k])
     /\ \A r \in BoundRefs(ps) : Len(o.heap[r]) = Len(hp[r])}

(* C10: the call with any params of the same keys and shapes ends as     *)
(* this one does and, if it returns, returns the same SQL text.          *)
C10_ValuesDoNotFlow ==
  Terminated =>
    \A o \in SameShape(params, heap) :
      LET other == SqlPilot(sql, o.params, o.heap)
      IN /\ other.pc = pc
         /\ Returned => other.newSql = outputSql

C10_Witness ==
  /\ Returned
  /\ DOMAIN params = {KeyLower, KeyUpper}
  /\ IsArray(params[KeyLower])
  /\ Len(heap[params[KeyLower]]) = 2
  /\ Len(calls) = 2
  /\ Len(outputParams) = 3
  /\ Cardinality(SameShape(params, heap)) = 8

====
